---- MODULE Spec2Model ----
(***************************************************************************)
(* A model of aidbox/lib.py: the client session (Aidbox) with its schema   *)
(* cache, the chainable search set (AidboxSearchSet) and the schema-       *)
(* validated resource object (AidboxResource).                             *)
(*                                                                         *)
(* Python objects are modelled as a heap: a search set holds the index of  *)
(* the parameter dict it references in `dicts', so two search sets whose   *)
(* `params' are the same dict object show the same mapping.                *)
(***************************************************************************)
EXTENDS Integers, Sequences, FiniteSets, TLC

\* ------------------------------------------------------------------ bounds
MaxBuilders == 3
MaxEntities == 2
MaxFetchBuilders == 1
MaxFetchEntities == 1
MaxRefEntities == 2

\* ------------------------------------------------------------ value domains
Types == {"Patient", "Binary"}
Ids == {"1", "2"}
\* the element of a one-element set: The({ f(x) : x \in {e} }) is f(e), with e
\* evaluated once
The(S) == CHOOSE x \in S : TRUE

Absent == "<absent>"
NoneId == "<None>"
NoInt == 0 - 1

\* ------------------------------------------------------------ python dicts
\* A parameter dict: string-valued keys and integer-valued keys; Absent/NoInt
\* mark a key the dict does not hold.
StrKeys == {"name", "status", "_sort", "_totalMethod", "entity"}
IntKeys == {"_count", "_page"}

EmptyDict == [s |-> [k \in StrKeys |-> Absent], n |-> [k \in IntKeys |-> NoInt]]

Keys(p) == {k \in StrKeys : p.s[k] # Absent} \cup {k \in IntKeys : p.n[k] # NoInt}

\* bool(d) of a dict: true unless it is empty
Truthy(p) == Keys(p) # {}

\* d.update(kwargs): the keys of kwargs overwrite, the others stay
update(p, kw) ==
  [p EXCEPT !.s = [k \in StrKeys |-> IF kw[k] # Absent THEN kw[k] ELSE p.s[k]]]

SetStr(p, k, v) == [p EXCEPT !.s[k] = v]
\* a variant of SetInt below that keeps a value already set, for comparison
SetInt_keep(p, k, v) == IF p.n[k] # NoInt THEN p ELSE [p EXCEPT !.n[k] = v]
SetInt(p, k, v) == [p EXCEPT !.n[k] = v]

\* ','.join(keys)
RECURSIVE join(_)
join(keys) ==
  IF keys = <<>> THEN ""
  ELSE IF Len(keys) = 1 THEN keys[1]
  ELSE keys[1] \o "," \o join(Tail(keys))

\* a value given to sort(): a list of keys or one string
ListArg(l) == [isList |-> TRUE, list |-> l, str |-> ""]
StrArg(x) == [isList |-> FALSE, list |-> <<>>, str |-> x]

\* sort_keys = ','.join(keys) if isinstance(keys, list) else keys
\* a variant of sort_keys below that keeps the first key only, for comparison
sort_keys_first(keys) == IF keys.isList THEN keys.list[1] ELSE keys.str
sort_keys(keys) == IF keys.isList THEN join(keys.list) ELSE keys.str

\* --------------------------------------------------------------- transport
Statuses == {200, 201, 404, 500}

\* { 'entity': resource_type }
EntityParams(rt) == SetStr(EmptyDict, "entity", rt)

\* {'_count': 1, '_totalMethod': 'count'}
CountParams == SetStr(SetInt(EmptyDict, "_count", 1), "_totalMethod", "count")

\* One request of Aidbox._fetch_resource: the path segments after the host and
\* the query parameters (params=None sends none, like an empty dict).
Request(path, params) == [path |-> path, params |-> params]

\* Aidbox._fetch_resource: the outcome for a response status
fetch_outcome(status) ==
  IF status = 404 THEN "NotFound"
  ELSE IF status = 200 THEN "ok"
  ELSE "AuthorizationError"

\* inflection.underscore on the attribute names the server declares
ServerAttrs == {"name", "birthDate", "data"}
underscore(a) ==
  CASE a = "birthDate" -> "birth_date"
    [] OTHER -> a

\* The session's schema cache: self.schema, a dict from resource type to a
\* set of names; present = FALSE is a key the dict does not hold.
NoSchema == [present |-> FALSE, attrs |-> {}]
EmptyCache == [t \in Types |-> NoSchema]

\* What the server answers to the attribute fetches of one call: a status
\* per resource type asked for, and the attributes it declares.
Answer(st, attrs) == [status |-> [t \in Types |-> st], attrs |-> attrs]
NoAnswer == Answer(0, {})
\* the server declares no attribute for Binary and fails for every other type
MixedAnswer ==
  [status |-> [t \in Types |-> IF t = "Binary" THEN 200 ELSE 500], attrs |-> {}]

\* A server answer to the Attribute query
AttrAnswers ==
  { Answer(200, {}),
    Answer(200, {"name", "birthDate"}),
    Answer(200, {"data", "name"}),
    Answer(500, {}) }

\* Three variants that differ from _fetch_schema below, for comparison: one
\* that leaves 'id' out of the set it caches, one that caches a set although
\* the fetch failed, one that never reads the cache.
_fetch_schema_without_id(sch, rt, ans) ==
  LET cached == IF sch[rt].present THEN sch[rt].attrs ELSE {} IN
  IF cached # {}
  THEN [outcome |-> "ok", schema |-> sch, attrs |-> cached, fetches |-> <<>>]
  ELSE LET req == Request(<<"Attribute">>, EntityParams(rt))
           out == fetch_outcome(ans.status[rt])
           got == {underscore(a) : a \in ans.attrs} IN
       IF out # "ok"
       THEN [outcome |-> out, schema |-> sch, attrs |-> {}, fetches |-> <<req>>]
       ELSE [outcome |-> "ok",
             schema |-> [sch EXCEPT ![rt] = [present |-> TRUE, attrs |-> got]],
             attrs |-> got, fetches |-> <<req>>]
_fetch_schema_caching_failure(sch, rt, ans) ==
  LET cached == IF sch[rt].present THEN sch[rt].attrs ELSE {} IN
  IF cached # {}
  THEN [outcome |-> "ok", schema |-> sch, attrs |-> cached, fetches |-> <<>>]
  ELSE LET req == Request(<<"Attribute">>, EntityParams(rt))
           out == fetch_outcome(ans.status[rt])
           got == IF out = "ok" THEN {underscore(a) : a \in ans.attrs} \cup {"id"}
                  ELSE {"id"} IN
       [outcome |-> out,
        schema |-> [sch EXCEPT ![rt] = [present |-> TRUE, attrs |-> got]],
        attrs |-> IF out = "ok" THEN got ELSE {}, fetches |-> <<req>>]
_fetch_schema_uncached(sch, rt, ans) ==
  LET req == Request(<<"Attribute">>, EntityParams(rt))
      out == fetch_outcome(ans.status[rt])
      got == {underscore(a) : a \in ans.attrs} \cup {"id"} IN
  IF out # "ok"
  THEN [outcome |-> out, schema |-> sch, attrs |-> {}, fetches |-> <<req>>]
  ELSE [outcome |-> "ok",
        schema |-> [sch EXCEPT ![rt] = [present |-> TRUE, attrs |-> got]],
        attrs |-> got, fetches |-> <<req>>]

\* Aidbox._fetch_schema(resource_type) against the cache `sch', the server
\* answering `ans' if asked.
_fetch_schema(sch, rt, ans) ==
  LET cached == IF sch[rt].present THEN sch[rt].attrs ELSE {} IN
  IF cached # {}
  THEN [outcome |-> "ok", schema |-> sch, attrs |-> cached, fetches |-> <<>>]
  ELSE LET req == Request(<<"Attribute">>, EntityParams(rt))
           out == fetch_outcome(ans.status[rt])
           got == {underscore(a) : a \in ans.attrs} \cup {"id"} IN
       IF out # "ok"
       THEN [outcome |-> out, schema |-> sch, attrs |-> {}, fetches |-> <<req>>]
       ELSE [outcome |-> "ok",
             schema |-> [sch EXCEPT ![rt] = [present |-> TRUE, attrs |-> got]],
             attrs |-> got, fetches |-> <<req>>]

\* ------------------------------------------------------------ python values
\* A value held in an entity's data dict: a string, None, or an
\* AidboxReference (resource type and id); kind "absent" marks a missing key.
Val(kind, s, rt, id) == [kind |-> kind, s |-> s, rt |-> rt, id |-> id]
AbsentV == Val("absent", "", "", "")
NoneV == Val("none", "", "", "")
StrV(x) == Val("str", x, "", "")
RefV(rt, id) == Val("ref", "", rt, id)
\* what a read returns for an object that is no string: a dict, a bound
\* method, the session, the schema set
ObjV(what) == Val(what, "", "", "")

\* The keys a data dict may hold
DataKeys == {"id", "name", "birth_date", "unknown_field"}
EmptyData == [k \in DataKeys |-> AbsentV]

\* The object bound to an entity's `data' attribute: a dict, or whatever a
\* caller assigned to it (here a string)
DictObj(d) == [isDict |-> TRUE, d |-> d, s |-> ""]
StrObj(x) == [isDict |-> FALSE, d |-> EmptyData, s |-> x]

\* A value passed to an attribute assignment or as an initial field:
\* a string, a dict, or the entity ents[ent]
StrIn(x) == [kind |-> "str", s |-> x, d |-> EmptyData, ent |-> 0]
DictIn(d) == [kind |-> "dict", s |-> "", d |-> d, ent |-> 0]
EntIn(i) == [kind |-> "entity", s |-> "", d |-> EmptyData, ent |-> i]

\* the string a non-dict attribute holds after being assigned v
Flat(v) == IF v.kind = "str" THEN v.s ELSE "<object>"

\* --------------------------------------------------------- AidboxResource
\* The names dir(self) holds that are not inherited from object: the class
\* attributes, the property and the methods of AidboxResource. Every key of
\* the instance dict is one of them, since __setattr__ stores only these.
ClassMembers ==
  {"aidbox", "resource_type", "data", "meta", "root_attrs", "save", "delete",
   "reference"}
\* the members a caller may shadow with an instance attribute; Absent is the
\* member as the class (or __init__) set it
OwnNames == {"aidbox", "save", "delete", "reference"}
EmptyMeta == "{}"

\* the entity after lines 174-176 of __init__
NewEntity(rt) ==
  [resource_type |-> rt, data |-> DictObj(EmptyData), meta |-> EmptyMeta,
   own |-> [n \in OwnNames |-> Absent]]

DataKeysOf(e) == IF e.data.isDict THEN {k \in DataKeys : e.data.d[k] # AbsentV} ELSE {}

\* the property root_attrs: self.aidbox.schema[self.resource_type]
root_attrs(sch, e) ==
  IF e.own["aidbox"] # Absent
  THEN [outcome |-> "AttributeError", attrs |-> {}]
  ELSE IF e.resource_type \notin Types \/ ~sch[e.resource_type].present
  THEN [outcome |-> "KeyError", attrs |-> {}]
  ELSE [outcome |-> "ok", attrs |-> sch[e.resource_type].attrs]

\* An attribute read e.key: the normal lookup finds the members, and
\* __getattr__ answers for every other name.
getattr(sch, e, key) ==
  IF key \in ClassMembers
  THEN CASE key = "resource_type" -> [outcome |-> "ok", val |-> StrV(e.resource_type)]
         [] key = "meta" -> [outcome |-> "ok", val |-> StrV(e.meta)]
         [] key = "data" ->
              [outcome |-> "ok",
               val |-> IF e.data.isDict THEN ObjV("dict") ELSE StrV(e.data.s)]
         [] key = "root_attrs" ->
              [outcome |-> root_attrs(sch, e).outcome, val |-> ObjV("set")]
         [] OTHER ->
              [outcome |-> "ok",
               val |-> IF e.own[key] # Absent THEN StrV(e.own[key]) ELSE ObjV("member")]
  ELSE LET ra == root_attrs(sch, e) IN
       IF ra.outcome # "ok" THEN [outcome |-> ra.outcome, val |-> NoneV]
       ELSE IF key \in ra.attrs
       THEN IF e.data.isDict
            THEN [outcome |-> "ok",
                  val |-> IF e.data.d[key] = AbsentV THEN NoneV ELSE e.data.d[key]]
            ELSE [outcome |-> "AttributeError", val |-> NoneV]
       ELSE [outcome |-> "UnknownField", val |-> NoneV]

\* a variant of reference() below that drops the id, for comparison
reference_without_id(sch, e) ==
  IF e.own["reference"] # Absent
  THEN [outcome |-> "TypeError", val |-> NoneV]
  ELSE [outcome |-> "ok", val |-> RefV(e.resource_type, NoneId)]

\* AidboxResource.reference(): AidboxReference(aidbox, resource_type, id)
reference(sch, e) ==
  IF e.own["reference"] # Absent
  THEN [outcome |-> "TypeError", val |-> NoneV]
  ELSE LET i == getattr(sch, e, "id") IN
       IF i.outcome # "ok" THEN [outcome |-> i.outcome, val |-> NoneV]
       ELSE [outcome |-> "ok",
             val |-> RefV(e.resource_type,
                          IF i.val.kind = "str" THEN i.val.s
                          ELSE IF i.val.kind = "none" THEN NoneId
                          ELSE "<object>")]

\* AidboxResource.__setattr__(key, value) on entity e of the heap `es'
__setattr__(sch, es, e, key, v) ==
  IF key \in ClassMembers
  THEN CASE key = "root_attrs" -> [outcome |-> "AttributeError", ent |-> e]
         [] key = "resource_type" ->
              [outcome |-> "ok", ent |-> [e EXCEPT !.resource_type = Flat(v)]]
         [] key = "meta" -> [outcome |-> "ok", ent |-> [e EXCEPT !.meta = Flat(v)]]
         [] key = "data" ->
              [outcome |-> "ok",
               ent |-> [e EXCEPT !.data = IF v.kind = "dict" THEN DictObj(v.d)
                                          ELSE StrObj(Flat(v))]]
         [] OTHER -> [outcome |-> "ok", ent |-> [e EXCEPT !.own[key] = Flat(v)]]
  ELSE LET ra == root_attrs(sch, e) IN
       IF ra.outcome # "ok" THEN [outcome |-> ra.outcome, ent |-> e]
       ELSE IF key \in ra.attrs
       THEN LET stored == IF v.kind = "entity"
                          THEN reference(sch, es[v.ent])
                          ELSE [outcome |-> "ok",
                                val |-> IF v.kind = "str" THEN StrV(v.s) ELSE ObjV("dict")] IN
            IF stored.outcome # "ok" THEN [outcome |-> stored.outcome, ent |-> e]
            ELSE IF ~e.data.isDict THEN [outcome |-> "TypeError", ent |-> e]
            ELSE [outcome |-> "ok", ent |-> [e EXCEPT !.data.d[key] = stored.val]]
       ELSE [outcome |-> "UnknownField", ent |-> e]

\* A mapping of initial fields (**kwargs): the resource type, the optional
\* meta, and the other fields in the order the mapping holds them.
Fld(k, v) == [key |-> k, value |-> v]
Payload(rt, meta, fields) == [resource_type |-> rt, meta |-> meta, fields |-> fields]

\* the loop of __init__ over kwargs.items(), from field i on
RECURSIVE init_loop(_, _, _, _, _, _)
init_loop(sch, es, e, skip, fields, i) ==
  IF i > Len(fields) THEN [outcome |-> "ok", ent |-> e]
  ELSE The({ IF r.outcome = "ok" THEN init_loop(sch, es, r.ent, skip, fields, i + 1)
             ELSE IF r.outcome = "UnknownField" /\ skip
             THEN init_loop(sch, es, e, skip, fields, i + 1)
             ELSE [outcome |-> r.outcome, ent |-> e]
             : r \in {__setattr__(sch, es, e, fields[i].key, fields[i].value)} })

\* AidboxResource.__init__(aidbox, skip_validation, **kwargs): the outcome,
\* the entity built, the cache afterwards and the requests sent.
__init__(sch, es, skip, kwargs, ans) ==
  The({ IF fs.outcome # "ok"
        THEN [outcome |-> fs.outcome, ent |-> e0, schema |-> fs.schema,
              fetches |-> fs.fetches]
        ELSE The({ [outcome |-> r.outcome, ent |-> r.ent, schema |-> fs.schema,
                    fetches |-> fs.fetches]
                   : r \in {init_loop(fs.schema, es, e0, skip, kwargs.fields, 1)} })
        : fs \in {_fetch_schema(sch, kwargs.resource_type, ans)},
          e0 \in {[NewEntity(kwargs.resource_type) EXCEPT !.meta = kwargs.meta]} })

\* ------------------------------------------------------------------- state
VARIABLES
  schema,    \* Aidbox.schema: the schema cache of the session
  dicts,     \* the heap of parameter dicts
  builders,  \* the search sets created so far: resource type and its params dict
  hist,      \* per search set: the search set it was derived from, whether
             \* first() was called on it, the mapping its chain of calls describes
  ents,      \* the resource objects the caller holds
  call,      \* the last operation called and its arguments
  fetches,   \* the requests the last operation sent, in order
  outcome,   \* "ok", or the exception the last operation raised
  result     \* what the last operation returned

vars == <<schema, dicts, builders, hist, ents, call, fetches, outcome, result>>

NoKwargs == [k \in StrKeys |-> Absent]
NoPayload == Payload("", EmptyMeta, <<>>)

\* A server response: the status and, of the decoded body, the resource of a
\* read by id, the resources under 'entry' and the 'total' of a bundle
Response(status, body, entries, total) ==
  [status |-> status, body |-> body, entries |-> entries, total |-> total]
NoResponse == Response(0, NoPayload, <<>>, NoInt)
NoCall ==
  [op |-> "none", b |-> 0, ret |-> 0, before |-> EmptyDict, kw |-> NoKwargs,
   n |-> NoInt, keys |-> StrArg(""), id |-> "", rt |-> "",
   e |-> 0, key |-> "", value |-> StrIn(""), skip |-> FALSE, kwargs |-> NoPayload,
   cache |-> EmptyCache, response |-> NoResponse, answer |-> NoAnswer]
NoResult == [ents |-> <<>>, total |-> NoInt, val |-> NoneV, attrs |-> {}, none |-> TRUE]

ParamsOf(b) == dicts[builders[b].params]

\* the answer the attribute fetches of a call got, if it sent any
Answered(fs, ans) ==
  IF \E i \in 1..Len(fs) : fs[i].path = <<"Attribute">> THEN ans ELSE NoAnswer

\* The caller is between two operations: the last one has returned (or
\* raised) and its result has been taken.
Idle == call.op = "none"

\* ---------------------------------------------------------- input domains
SearchArgs ==
  { NoKwargs,
    [NoKwargs EXCEPT !["name"] = "Jane"],
    [NoKwargs EXCEPT !["name"] = "John", !["status"] = "active"] }
LimitArgs == {5, 10}
PageArgs == {2}
SortArgs == { ListArg(<<"-birth_date", "name">>), StrArg("name") }

\* ---------------------------------------------------------- AidboxSearchSet
\* AidboxSearchSet.__init__(aidbox, resource_type, params): the heap and the
\* search sets after one more is built on the dict `ref' (0 is params=None)
\* a variant of new_search_set below in which a search set made without
\* params falls back on one dict shared by all, for comparison
new_search_set_shared(ds, bs, rt, ref) ==
  IF ref # 0 /\ Truthy(ds[ref])
  THEN [dicts |-> ds, builders |-> Append(bs, [resource_type |-> rt, params |-> ref])]
  ELSE IF ds # <<>>
  THEN [dicts |-> ds, builders |-> Append(bs, [resource_type |-> rt, params |-> 1])]
  ELSE [dicts |-> Append(ds, EmptyDict),
        builders |-> Append(bs, [resource_type |-> rt, params |-> Len(ds) + 1])]

new_search_set(ds, bs, rt, ref) ==
  IF ref # 0 /\ Truthy(ds[ref])
  THEN [dicts |-> ds, builders |-> Append(bs, [resource_type |-> rt, params |-> ref])]
  ELSE [dicts |-> Append(ds, EmptyDict),
        builders |-> Append(bs, [resource_type |-> rt, params |-> Len(ds) + 1])]

\* the mapping a chain call describes, applied to the mapping p
Described(p, c) ==
  CASE c.op = "search" ->
         [p EXCEPT !.s = [k \in StrKeys |-> IF c.kw[k] = Absent THEN p.s[k] ELSE c.kw[k]]]
    [] c.op = "limit" -> [p EXCEPT !.n["_count"] = c.n]
    [] c.op = "page" -> [p EXCEPT !.n["_page"] = c.n]
    [] c.op = "sort" ->
         [p EXCEPT !.s["_sort"] =
            IF ~c.keys.isList THEN c.keys.str
            ELSE IF Len(c.keys.list) = 2 THEN c.keys.list[1] \o "," \o c.keys.list[2]
            ELSE IF Len(c.keys.list) = 1 THEN c.keys.list[1] ELSE ""]

\* a chain call c on search set b: the dict of b is changed in place to `d'
\* and a search set is built on it
Chain(b, c, d) ==
  /\ Idle
  /\ Len(builders) < MaxBuilders
  /\ LET ref == builders[b].params
         ds == [dicts EXCEPT ![ref] = d]
         h == new_search_set(ds, builders, builders[b].resource_type, ref) IN
     /\ dicts' = h.dicts
     /\ builders' = h.builders
     /\ hist' = Append(hist, [parent |-> b, first |-> FALSE,
                               expected |-> Described(hist[b].expected, c)])
     /\ call' = [c EXCEPT !.b = b, !.ret = Len(builders) + 1, !.before = dicts[ref],
                          !.cache = schema]
  /\ fetches' = <<>>
  /\ outcome' = "ok"
  /\ result' = NoResult
  /\ UNCHANGED <<schema, ents>>

\* Aidbox.resources(resource_type)
Resources(rt) ==
  /\ Idle
  /\ Len(builders) < MaxBuilders
  /\ LET h == new_search_set(dicts, builders, rt, 0) IN
     /\ dicts' = h.dicts
     /\ builders' = h.builders
  /\ hist' = Append(hist, [parent |-> 0, first |-> FALSE, expected |-> EmptyDict])
  /\ call' = [NoCall EXCEPT !.op = "resources", !.ret = Len(builders) + 1, !.cache = schema]
  /\ fetches' = <<>>
  /\ outcome' = "ok"
  /\ result' = NoResult
  /\ UNCHANGED <<schema, ents>>

\* AidboxSearchSet.search(**kwargs)
Search(b, kw) ==
  Chain(b, [NoCall EXCEPT !.op = "search", !.kw = kw], update(ParamsOf(b), kw))

\* a variant of limit() below that sends the request at once, for comparison
Limit_eager(b, n) ==
  /\ Chain(b, [NoCall EXCEPT !.op = "limit", !.n = n], SetInt(ParamsOf(b), "_count", n))!1
  /\ Chain(b, [NoCall EXCEPT !.op = "limit", !.n = n], SetInt(ParamsOf(b), "_count", n))!2
  /\ Chain(b, [NoCall EXCEPT !.op = "limit", !.n = n], SetInt(ParamsOf(b), "_count", n))!3
  /\ fetches' = <<Request(<<builders[b].resource_type>>, SetInt(ParamsOf(b), "_count", n))>>
  /\ outcome' = "ok"
  /\ result' = NoResult
  /\ UNCHANGED <<schema, ents>>

\* AidboxSearchSet.limit(limit)
Limit(b, n) ==
  Chain(b, [NoCall EXCEPT !.op = "limit", !.n = n], SetInt(ParamsOf(b), "_count", n))

\* AidboxSearchSet.page(page)
Page(b, n) ==
  Chain(b, [NoCall EXCEPT !.op = "page", !.n = n], SetInt(ParamsOf(b), "_page", n))

\* AidboxSearchSet.sort(keys)
Sort(b, keys) ==
  Chain(b, [NoCall EXCEPT !.op = "sort", !.keys = keys],
        SetStr(ParamsOf(b), "_sort", sort_keys(keys)))

\* the bodies the server holds, field names already converted to underscore
PJane ==
  Payload("Patient", EmptyMeta,
          <<Fld("id", StrIn("1")), Fld("name", StrIn("Jane")),
            Fld("unknown_field", StrIn("x"))>>)
PJohn ==
  Payload("Patient", EmptyMeta, <<Fld("name", StrIn("John")), Fld("id", StrIn("2"))>>)
PBin ==
  Payload("Binary", "m1", <<Fld("id", StrIn("2")), Fld("data", StrIn("abc"))>>)

FailResponses == {Response(st, NoPayload, <<>>, NoInt) : st \in Statuses \ {200}}
GetResponses == FailResponses \cup {Response(200, p, <<>>, NoInt) : p \in {PJane, PBin}}
AllResponses ==
  FailResponses \cup
  {Response(200, NoPayload, l, Len(l)) : l \in {<<>>, <<PJane, PJohn>>, <<PBin, PJane>>}}
CountResponses ==
  FailResponses \cup {Response(200, NoPayload, <<>>, t) : t \in {0, 7}}

\* the list comprehension of all(): one AidboxResource per resource, in order
RECURSIVE wrap(_, _, _, _, _)
wrap(sch, es, resources, i, ans) ==
  IF i > Len(resources)
  THEN [outcome |-> "ok", ents |-> <<>>, schema |-> sch, fetches |-> <<>>]
  ELSE The({ IF r.outcome # "ok"
             THEN [outcome |-> r.outcome, ents |-> <<>>, schema |-> r.schema,
                   fetches |-> r.fetches]
             ELSE The({ [outcome |-> rest.outcome,
                         ents |-> IF rest.outcome = "ok" THEN <<r.ent>> \o rest.ents
                                  ELSE <<>>,
                         schema |-> rest.schema,
                         fetches |-> r.fetches \o rest.fetches]
                        : rest \in {wrap(r.schema, es, resources, i + 1, ans)} })
             : r \in {__init__(sch, es, TRUE, resources[i], ans)} })

\* AidboxSearchSet.all() of a search set on `rt' whose params show `p'
all(sch, es, rt, p, resp, ans) ==
  IF fetch_outcome(resp.status) # "ok"
  THEN [outcome |-> fetch_outcome(resp.status), ents |-> <<>>, schema |-> sch,
        fetches |-> <<Request(<<rt>>, p)>>]
  ELSE The({ [w EXCEPT !.fetches = <<Request(<<rt>>, p)>> \o w.fetches]
             : w \in {wrap(sch, es, resp.entries, 1, ans)} })

\* what a terminal call leaves behind
Returned(c, b, resp, r, res) ==
  /\ Idle
  /\ call' = [c EXCEPT !.b = b, !.before = ParamsOf(b), !.cache = schema,
                       !.response = resp]
  /\ schema' = r.schema
  /\ fetches' = r.fetches
  /\ outcome' = r.outcome
  /\ result' = IF r.outcome = "ok" THEN res ELSE NoResult
  /\ UNCHANGED <<builders, ents>>

\* AidboxSearchSet.get(id): the outcome, the entity, the cache afterwards and
\* the requests sent
get(sch, es, rt, id, resp, ans) ==
  IF fetch_outcome(resp.status) # "ok"
  THEN [outcome |-> fetch_outcome(resp.status), ents |-> <<>>, schema |-> sch,
        fetches |-> <<Request(<<rt, id>>, EmptyDict)>>]
  ELSE The({ [outcome |-> made.outcome,
              ents |-> IF made.outcome = "ok" THEN <<made.ent>> ELSE <<>>,
              schema |-> made.schema,
              fetches |-> <<Request(<<rt, id>>, EmptyDict)>> \o made.fetches]
             : made \in {__init__(sch, es, TRUE, resp.body, ans)} })

\* a call of get(id) on search set b
Get(b, id, resp, ans) ==
  \E r \in {get(schema, ents, builders[b].resource_type, id, resp, ans)} :
    /\ Returned([NoCall EXCEPT !.op = "get", !.id = id,
                                !.answer = Answered(r.fetches, ans)], b, resp, r,
                [NoResult EXCEPT !.ents = r.ents, !.none = FALSE])
    /\ UNCHANGED <<dicts, hist>>

\* AidboxSearchSet.all()
All(b, resp, ans) ==
  \E r \in {all(schema, ents, builders[b].resource_type, ParamsOf(b), resp, ans)} :
    /\ Returned([NoCall EXCEPT !.op = "all", !.answer = Answered(r.fetches, ans)], b, resp, r,
                [NoResult EXCEPT !.ents = r.ents, !.none = FALSE])
    /\ UNCHANGED <<dicts, hist>>

\* AidboxSearchSet.__iter__()
Iter(b, resp, ans) ==
  \E r \in {all(schema, ents, builders[b].resource_type, ParamsOf(b), resp, ans)} :
    /\ Returned([NoCall EXCEPT !.op = "iter", !.answer = Answered(r.fetches, ans)], b, resp, r,
                [NoResult EXCEPT !.ents = r.ents, !.none = FALSE])
    /\ UNCHANGED <<dicts, hist>>

\* AidboxSearchSet.first(): self.limit(1).all(), then result[0] or None. The
\* search set limit(1) returns is dropped when first() returns.
First(b, resp, ans) ==
  \E tmp \in {new_search_set([dicts EXCEPT ![builders[b].params] =
                                 SetInt(ParamsOf(b), "_count", 1)],
                             builders, builders[b].resource_type, builders[b].params)} :
    \E t \in {tmp.builders[Len(tmp.builders)]} :
      \E r \in {all(schema, ents, t.resource_type, tmp.dicts[t.params], resp, ans)} :
        /\ dicts' = [dicts EXCEPT ![builders[b].params] = SetInt(ParamsOf(b), "_count", 1)]
        /\ hist' = [hist EXCEPT ![b].first = TRUE]
        /\ Returned([NoCall EXCEPT !.op = "first", !.answer = Answered(r.fetches, ans)], b, resp, r,
                    IF r.ents # <<>>
                    THEN [NoResult EXCEPT !.ents = <<r.ents[1]>>, !.none = FALSE]
                    ELSE NoResult)

\* AidboxSearchSet.count()
Count(b, resp) ==
  LET req == Request(<<builders[b].resource_type>>, CountParams)
      out == fetch_outcome(resp.status)
      r == [outcome |-> out, schema |-> schema, fetches |-> <<req>>] IN
  /\ Returned([NoCall EXCEPT !.op = "count"], b, resp, r,
              [NoResult EXCEPT !.total = resp.total, !.none = FALSE])
  /\ UNCHANGED <<dicts, hist>>

\* Aidbox._fetch_schema(resource_type), called on the session
FetchSchema(rt, ans) ==
  \E r \in {_fetch_schema(schema, rt, ans)} :
  /\ Idle
  /\ schema' = r.schema
  /\ fetches' = r.fetches
  /\ outcome' = r.outcome
  /\ result' = IF r.outcome = "ok" THEN [NoResult EXCEPT !.attrs = r.attrs, !.none = FALSE]
               ELSE NoResult
  /\ call' = [NoCall EXCEPT !.op = "fetch_schema", !.rt = rt, !.cache = schema,
                            !.answer = Answered(r.fetches, ans)]
  /\ UNCHANGED <<dicts, builders, hist, ents>>

\* ---------------------------------------------------- resource operations
\* initial fields a caller (or a server body) gives a new resource object
InitKwargs ==
  { Payload("Patient", EmptyMeta,
            <<Fld("name", StrIn("Jane")), Fld("unknown_field", StrIn("x"))>>),
    Payload("Patient", EmptyMeta,
            <<Fld("unknown_field", StrIn("x")), Fld("name", StrIn("Jane"))>>),
    Payload("Patient", EmptyMeta, <<Fld("save", StrIn("x")), Fld("id", StrIn("1"))>>),
    Payload("Binary", "m1", <<Fld("data", StrIn("abc")), Fld("id", StrIn("2"))>>),
    PBin }

\* key and value of an attribute assignment on a resource object
AssignInputs ==
  { Fld("name", StrIn("John")),
    Fld("unknown_field", StrIn("x")),
    Fld("resource_type", StrIn("Binary")),
    Fld("data", DictIn([EmptyData EXCEPT !["unknown_field"] = StrV("x")])),
    Fld("save", StrIn("x")),
    Fld("root_attrs", StrIn("x")) }
  \cup {Fld("name", EntIn(j)) : j \in 1..Len(ents)}

ReadKeys == {"id", "name", "unknown_field", "data", "save", "root_attrs"}

\* what the construction of a resource object leaves behind
Constructed(skip, kw, ans) ==
  /\ Idle
  /\ Len(ents) < MaxEntities
  /\ \E r \in {__init__(schema, ents, skip, kw, ans)} :
     /\ ents' = IF r.outcome = "ok" THEN Append(ents, r.ent) ELSE ents
     /\ schema' = r.schema
     /\ fetches' = r.fetches
     /\ outcome' = r.outcome
     /\ call' = [NoCall EXCEPT !.op = "new", !.skip = skip, !.kwargs = kw,
                               !.e = IF r.outcome = "ok" THEN Len(ents) + 1 ELSE 0,
                               !.cache = schema,
                               !.answer = Answered(r.fetches, ans)]
  /\ result' = NoResult
  /\ UNCHANGED <<dicts, builders, hist>>

\* Aidbox.resource(resource_type, **kwargs)
Resource(kw, ans) == Constructed(FALSE, kw, ans)

\* AidboxResource(aidbox, skip_validation=True, **data), as get() and all()
\* build it, the caller keeping the object
Wrapped(kw, ans) == Constructed(TRUE, kw, ans)

\* entity.key = value
SetAttr(i, f) ==
  \E r \in {__setattr__(schema, ents, ents[i], f.key, f.value)} :
  /\ Idle
  /\ ents' = [ents EXCEPT ![i] = r.ent]
  /\ outcome' = r.outcome
  /\ call' = [NoCall EXCEPT !.op = "setattr", !.e = i, !.key = f.key, !.value = f.value,
                            !.cache = schema]
  /\ fetches' = <<>>
  /\ result' = NoResult
  /\ UNCHANGED <<schema, dicts, builders, hist>>

\* entity.key
GetAttr(i, key) ==
  \E r \in {getattr(schema, ents[i], key)} :
  /\ Idle
  /\ outcome' = r.outcome
  /\ result' = IF r.outcome = "ok" THEN [NoResult EXCEPT !.val = r.val, !.none = FALSE]
               ELSE NoResult
  /\ call' = [NoCall EXCEPT !.op = "getattr", !.e = i, !.key = key, !.cache = schema]
  /\ fetches' = <<>>
  /\ UNCHANGED <<schema, dicts, builders, hist, ents>>

\* entity.reference()
Reference(i) ==
  \E r \in {reference(schema, ents[i])} :
  /\ Idle
  /\ outcome' = r.outcome
  /\ result' = IF r.outcome = "ok" THEN [NoResult EXCEPT !.val = r.val, !.none = FALSE]
               ELSE NoResult
  /\ call' = [NoCall EXCEPT !.op = "reference", !.e = i, !.cache = schema]
  /\ fetches' = <<>>
  /\ UNCHANGED <<schema, dicts, builders, hist, ents>>

\* The caller takes what the last operation returned or raised.
Return ==
  /\ ~Idle
  /\ call' = NoCall
  /\ fetches' = <<>>
  /\ outcome' = "ok"
  /\ result' = NoResult
  /\ UNCHANGED <<schema, dicts, builders, hist, ents>>

\* ------------------------------------------------------------ specification
Init ==
  /\ schema = EmptyCache
  /\ dicts = <<>>
  /\ builders = <<>>
  /\ hist = <<>>
  /\ ents = <<>>
  /\ call = NoCall
  /\ fetches = <<>>
  /\ outcome = "ok"
  /\ result = NoResult

\* The search-set operations against a server that holds two patients and
\* declares one schema.
SearchAnswers == {Answer(200, {"name", "birthDate"})}
SearchGets == {Response(404, NoPayload, <<>>, NoInt), Response(200, PJane, <<>>, NoInt)}
SearchBundles == {Response(200, NoPayload, l, Len(l)) : l \in {<<>>, <<PJane, PJohn>>}}
SearchCounts == {Response(200, NoPayload, <<>>, 7)}

NextSearch ==
  \/ Return
  \/ \E rt \in {"Patient"} : Resources(rt)
  \/ \E b \in 1..Len(builders), kw \in SearchArgs : Search(b, kw)
  \/ \E b \in 1..Len(builders), n \in LimitArgs : Limit(b, n)
  \/ \E b \in 1..Len(builders), n \in PageArgs : Page(b, n)
  \/ \E b \in 1..Len(builders), keys \in SortArgs : Sort(b, keys)
  \/ \E b \in 1..Len(builders), id \in Ids, resp \in SearchGets, ans \in SearchAnswers :
       Get(b, id, resp, ans)
  \/ \E b \in 1..Len(builders), resp \in SearchBundles, ans \in SearchAnswers :
       All(b, resp, ans)
  \/ \E b \in 1..Len(builders), resp \in SearchBundles, ans \in SearchAnswers :
       First(b, resp, ans)
  \/ \E b \in 1..Len(builders), resp \in SearchCounts : Count(b, resp)

\* Chains of calls and all(), against the same server.
NextChain ==
  \/ Return
  \/ \E rt \in {"Patient"} : Resources(rt)
  \/ \E b \in 1..Len(builders), kw \in SearchArgs : Search(b, kw)
  \/ \E b \in 1..Len(builders), n \in LimitArgs : Limit(b, n)
  \/ \E b \in 1..Len(builders), n \in PageArgs : Page(b, n)
  \/ \E b \in 1..Len(builders), keys \in SortArgs : Sort(b, keys)
  \/ \E b \in 1..Len(builders), resp \in SearchBundles, ans \in SearchAnswers :
       All(b, resp, ans)

\* Filters, limits and first() on search sets of several resources() calls.
NextFirst ==
  \/ Return
  \/ \E rt \in {"Patient"} : Resources(rt)
  \/ \E b \in 1..Len(builders), kw \in SearchArgs : Search(b, kw)
  \/ \E b \in 1..Len(builders), n \in {5} : Limit(b, n)
  \/ \E b \in 1..Len(builders), resp \in SearchBundles, ans \in SearchAnswers :
       First(b, resp, ans)

\* The operations that send requests, against a server whose answers vary
\* (it fails, for every type or for some, or declares no attribute, or
\* declares name and birthDate), on at
\* most MaxFetchBuilders search sets and MaxFetchEntities entities kept.
FetchAnswers == {a \in AttrAnswers : "data" \notin a.attrs} \cup {MixedAnswer}
FetchResources(rt) == Len(builders) < MaxFetchBuilders /\ Resources(rt)
FetchResource(kw, ans) == Len(ents) < MaxFetchEntities /\ Resource(kw, ans)

NextFetch ==
  \/ Return
  \/ \E rt \in Types : FetchResources(rt)
  \/ \E kw \in {PJane, PBin}, ans \in FetchAnswers : FetchResource(kw, ans)
  \/ \E rt \in Types, ans \in FetchAnswers : FetchSchema(rt, ans)
  \/ \E b \in 1..Len(builders), id \in Ids, resp \in GetResponses, ans \in FetchAnswers :
       Get(b, id, resp, ans)
  \/ \E b \in 1..Len(builders), resp \in AllResponses, ans \in FetchAnswers :
       All(b, resp, ans)
  \/ \E b \in 1..Len(builders), resp \in SearchBundles, ans \in FetchAnswers :
       Iter(b, resp, ans)
  \/ \E b \in 1..Len(builders), resp \in AllResponses, ans \in FetchAnswers :
       First(b, resp, ans)
  \/ \E b \in 1..Len(builders), resp \in CountResponses : Count(b, resp)

NextResource ==
  \/ Return
  \/ \E kw \in InitKwargs, ans \in AttrAnswers : Resource(kw, ans)
  \/ \E kw \in InitKwargs, ans \in AttrAnswers : Wrapped(kw, ans)
  \/ \E i \in 1..Len(ents), f \in AssignInputs : SetAttr(i, f)
  \/ \E i \in 1..Len(ents), key \in ReadKeys : GetAttr(i, key)

\* Entities with and without an id, assigned to each other's fields, on at
\* most MaxRefEntities entities.
RefKwargs == {PJohn, Payload("Patient", EmptyMeta, <<Fld("name", StrIn("Jane"))>>)}
RefAssigns ==
  { Fld("id", StrIn("2")),
    Fld("resource_type", StrIn("Binary")),
    Fld("reference", StrIn("x")) }
  \cup {Fld("name", EntIn(j)) : j \in 1..Len(ents)}
RefResource(kw, ans) == Len(ents) < MaxRefEntities /\ Resource(kw, ans)

NextReference ==
  \/ Return
  \/ \E kw \in RefKwargs, ans \in SearchAnswers : RefResource(kw, ans)
  \/ \E i \in 1..Len(ents), f \in RefAssigns : SetAttr(i, f)
  \/ \E i \in 1..Len(ents) : GetAttr(i, "name")
  \/ \E i \in 1..Len(ents) : Reference(i)

Next == NextSearch \/ NextChain \/ NextFirst \/ NextFetch \/ NextResource \/ NextReference

Spec == Init /\ [][Next]_vars
SpecSearch == Init /\ [][NextSearch]_vars
SpecChain == Init /\ [][NextChain]_vars
SpecFirst == Init /\ [][NextFirst]_vars
SpecFetch == Init /\ [][NextFetch]_vars
SpecResource == Init /\ [][NextResource]_vars
SpecReference == Init /\ [][NextReference]_vars

\* ------------------------------------------------------------------ claims
ChainOps == {"search", "limit", "page", "sort"}
TerminalOps == {"get", "all", "first", "count"}

\* search set a is one that b was derived from, by one chain call or more
RECURSIVE Ancestor(_, _)
Ancestor(a, b) ==
  /\ hist[b].parent # 0
  /\ (hist[b].parent = a \/ Ancestor(a, hist[b].parent))

\* the search sets that chain calls on a returned
Children(a) == {c \in 1..Len(builders) : hist[c].parent = a}

\* b ends a chain of calls from a fresh search set: every search set of the
\* chain had one chain call made on it and nothing else, and b none
Linear(b) ==
  /\ Children(b) = {}
  /\ ~hist[b].first
  /\ \A a \in 1..Len(builders) :
       Ancestor(a, b) => Cardinality(Children(a)) = 1 /\ ~hist[a].first

\* the requests of fs that ask for the attributes of resource type t
AttrRequests(fs, t) ==
  {i \in 1..Len(fs) : fs[i].path = <<"Attribute">> /\ fs[i].params = EntityParams(t)}

\* the value a mapping of initial fields gives key k (Absent if none)
RECURSIVE FieldOf(_, _, _)
FieldOf(fields, k, i) ==
  IF i = 0 THEN Absent
  ELSE IF fields[i].key = k THEN fields[i].value.s
  ELSE FieldOf(fields, k, i - 1)
InitialField(kw, k) == FieldOf(kw.fields, k, Len(kw.fields))
InitialKeys(kw) == {kw.fields[i].key : i \in 1..Len(kw.fields)}

\* C1: a chain operation (search, limit, page, sort) called on a search set
\* returns another search set and leaves the mapping of the one it was called
\* on as it was before the call.
C1_ChainLeavesOriginal ==
  call.op \in ChainOps =>
    /\ call.ret # call.b
    /\ ParamsOf(call.b) = call.before

\* C2: search sets are independent snapshots: an operation called on a search
\* set never changes the mapping of a search set it was derived from, nor of
\* one derived from it.
C2_IndependentSnapshots ==
  [][\A b \in 1..Len(builders) :
       ( /\ call'.op \in ChainOps \cup TerminalOps
         /\ call'.b # b
         /\ (Ancestor(b, call'.b) \/ Ancestor(call'.b, b)) )
       => dicts'[builders[b].params] = dicts[builders[b].params]]_vars

\* C4: count() on a search set whose mapping is P sends P together with
\* _count = 1 and _totalMethod = "count", and returns the server's total.
C4_CountSendsFilters ==
  call.op = "count" =>
    /\ Len(fetches) = 1
    /\ fetches[1] =
         Request(<<builders[call.b].resource_type>>,
                 SetStr(SetInt(call.before, "_count", 1), "_totalMethod", "count"))
    /\ (outcome = "ok" => result.total = call.response.total)

\* C5: all() on the search set that ends a chain of search/limit/page/sort
\* calls from a fresh search set sends, as its collection request, exactly the
\* mapping the chain describes, and when it returns it returns one entity per
\* entry of the response, in the order of the response.
C5_ChainThenAll ==
  (call.op = "all" /\ Linear(call.b)) =>
    /\ fetches # <<>>
    /\ fetches[1] = Request(<<builders[call.b].resource_type>>, hist[call.b].expected)
    /\ (outcome = "ok" =>
          /\ Len(result.ents) = Len(call.response.entries)
          /\ \A i \in 1..Len(result.ents) :
               /\ result.ents[i].resource_type = call.response.entries[i].resource_type
               /\ result.ents[i].data.isDict
               /\ result.ents[i].data.d["id"] =
                    StrV(InitialField(call.response.entries[i], "id")))

\* C5 witness: search(name="Jane") then sort(["-birth_date", "name"]) from a
\* fresh search set, then all() returning the two entries of the response
C5_Witness ==
  /\ call.op = "all"
  /\ Linear(call.b)
  /\ outcome = "ok"
  /\ Len(result.ents) = 2
  /\ fetches[1].params.s["name"] = "Jane"
  /\ fetches[1].params.s["_sort"] = "-birth_date,name"

\* the resource types of the resources a terminal call received
ReceivedTypes ==
  IF call.op = "get" THEN {call.response.body.resource_type}
  ELSE {call.response.entries[i].resource_type : i \in 1..Len(call.response.entries)}

\* the schema set of e's resource type, if the cache `sch' holds one
Resolvable(sch, e) == e.resource_type \in Types /\ sch[e.resource_type].present
SchemaOf(sch, e) == IF Resolvable(sch, e) THEN sch[e.resource_type].attrs ELSE {}

\* C3: once the cache holds the attribute set of a resource type T, no step
\* sends an attribute-definition fetch for T or changes the cache entry of T,
\* and a resolution of T returns the cached set; while the cache does not
\* hold it, a step sends at most one such fetch, a resolution of T sends
\* exactly one, and the entry is filled only by a step that sent exactly one.
C3_SchemaFetchedOnce ==
  [][\A T \in Types :
       /\ schema[T].present =>
            /\ schema'[T] = schema[T]
            /\ AttrRequests(fetches', T) = {}
            /\ (call'.op = "fetch_schema" /\ call'.rt = T) =>
                 (outcome' = "ok" /\ result'.attrs = schema[T].attrs)
       /\ ~schema[T].present =>
            /\ Cardinality(AttrRequests(fetches', T)) <= 1
            /\ (call'.op = "fetch_schema" /\ call'.rt = T) =>
                 Cardinality(AttrRequests(fetches', T)) = 1
            /\ schema'[T].present => Cardinality(AttrRequests(fetches', T)) = 1]_vars

\* C3 witness: a resolution of a type whose attribute fetch had answered with
\* no attribute at all is a cache hit: no request, the cached set returned
C3_Witness ==
  /\ call.op = "fetch_schema"
  /\ call.cache[call.rt].present
  /\ fetches = <<>>
  /\ outcome = "ok"
  /\ result.attrs = {"id"}
  /\ schema[call.rt].attrs = {"id"}

\* C6: every call of get, all, first or count performs exactly one network
\* fetch.
C6_ExactlyOneFetch == call.op \in TerminalOps => Len(fetches) = 1

\* C6, amended: a terminal call sends exactly one resource fetch, and sends it
\* first; count() sends nothing else; get, all and first send after it only
\* attribute-definition fetches, at most one per resource type and none for a
\* type the cache held when the call started, and when they return they have
\* sent one for each resource type received that the cache did not hold.
C6_FetchesOfTerminal ==
  call.op \in TerminalOps =>
    /\ Len(fetches) >= 1
    /\ fetches[1].path # <<"Attribute">>
    /\ fetches[1].path[1] = builders[call.b].resource_type
    /\ \A i \in 2..Len(fetches) : fetches[i].path = <<"Attribute">>
    /\ call.op = "count" => Len(fetches) = 1
    /\ \A T \in Types :
         /\ Cardinality(AttrRequests(fetches, T)) <= 1
         /\ call.cache[T].present => AttrRequests(fetches, T) = {}
         /\ (outcome = "ok" /\ call.op # "count") =>
              (AttrRequests(fetches, T) # {} <=>
                 (T \in ReceivedTypes /\ ~call.cache[T].present))
    /\ Len(fetches) =
         1 + Cardinality({T \in Types : AttrRequests(fetches, T) # {}})

\* C6 witness: all() on an empty cache receives a Binary and a Patient and
\* sends three requests
C6_Witness ==
  /\ call.op = "all"
  /\ outcome = "ok"
  /\ Len(call.response.entries) = 2
  /\ \A T \in Types : ~call.cache[T].present
  /\ Len(fetches) = 3

\* C7: every key of every entity's data mapping is in the schema set cached
\* for the entity's current resource type ('id' is in every schema set).
C7_DataKeysInSchema ==
  \A i \in 1..Len(ents) : DataKeysOf(ents[i]) \subseteq SchemaOf(schema, ents[i]) \cup {"id"}

\* C8: a construction with an initial field that is not in the schema set of
\* its resource type raises UnknownField when skip-validation is off; when it
\* is on, the construction succeeds, the unknown fields are not stored, every
\* schema-known initial field is stored, and a read of an unknown field
\* raises UnknownField.
C8_UnknownInitialField ==
  ( /\ call.op = "new"
    /\ schema[call.kwargs.resource_type].present
    /\ InitialKeys(call.kwargs) \ schema[call.kwargs.resource_type].attrs # {} )
  => LET known == schema[call.kwargs.resource_type].attrs
         unknown == InitialKeys(call.kwargs) \ known IN
     /\ ~call.skip => outcome = "UnknownField"
     /\ call.skip =>
          /\ outcome = "ok"
          /\ call.e \in 1..Len(ents)
          /\ LET e == ents[call.e] IN
             /\ e.data.isDict
             /\ \A k \in unknown :
                  /\ k \notin DataKeysOf(e)
                  /\ k \in OwnNames => e.own[k] = Absent
                  /\ getattr(schema, e, k).outcome = "UnknownField"
             /\ \A k \in InitialKeys(call.kwargs) \cap known :
                  e.data.d[k] = StrV(InitialField(call.kwargs, k))

\* C9: an assignment to a name that is not in the schema set of the entity's
\* resource type raises UnknownField and leaves the entity unchanged, and a
\* read of such a name raises UnknownField, the names of the entity's own
\* members included.
C9_UnknownNameRaises ==
  [][( /\ call'.op \in {"setattr", "getattr"}
       /\ Resolvable(schema, ents[call'.e])
       /\ call'.key \notin SchemaOf(schema, ents[call'.e]) )
     => /\ outcome' = "UnknownField"
        /\ ents' = ents]_vars

\* C10: a construction in skip-validation mode from a payload whose schema
\* was resolved succeeds, a read of each field that is both in the payload
\* and in the schema returns the payload's value, and a validated assignment
\* to the entity afterwards succeeds.
C10_RoundTrip ==
  ( /\ call.op = "new"
    /\ call.skip
    /\ schema[call.kwargs.resource_type].present )
  => /\ outcome = "ok"
     /\ call.e \in 1..Len(ents)
     /\ LET e == ents[call.e] IN
        /\ \A k \in InitialKeys(call.kwargs) \cap schema[call.kwargs.resource_type].attrs :
             getattr(schema, e, k) =
               [outcome |-> "ok", val |-> StrV(InitialField(call.kwargs, k))]
        /\ __setattr__(schema, ents, e, "id", StrIn("1")).outcome = "ok"

\* the id an entity shows to a reader: its stored id, or None
IdOf(e) == IF e.data.d["id"].kind = "str" THEN e.data.d["id"].s ELSE NoneId

\* C11: an assignment of entity E2 to a schema-known field of another entity
\* E1, when it returns, has stored in E1's data a Reference with E2's resource
\* type and id as they were at the assignment and has left E2 as it was; and
\* no assignment to an entity changes what another entity holds.
C11_EntityStoredAsReference ==
  [][call'.op = "setattr" =>
       /\ \A j \in 1..Len(ents) : j # call'.e => ents'[j] = ents[j]
       /\ ( /\ call'.value.kind = "entity"
            /\ call'.value.ent # call'.e
            /\ call'.key \in SchemaOf(schema, ents[call'.e]) \ ClassMembers
            /\ outcome' = "ok" )
          => /\ ents'[call'.e].data.isDict
             /\ ents'[call'.e].data.d[call'.key] =
                  RefV(ents[call'.value.ent].resource_type, IdOf(ents[call'.value.ent]))
             /\ ents'[call'.e] =
                  [ents[call'.e] EXCEPT !.data.d[call'.key] = ents'[call'.e].data.d[call'.key]]
     ]_vars

\* C11 witness: an entity with id "2" was assigned to the field name of
\* another entity, which now holds a Reference to Patient/2
C11_Witness ==
  /\ call.op = "setattr"
  /\ call.value.kind = "entity"
  /\ call.value.ent # call.e
  /\ outcome = "ok"
  /\ ents[call.e].data.d["name"] = RefV("Patient", "2")
  /\ ents[call.value.ent].data.d["id"] = StrV("2")

\* C15: every Reference carries a resource type and a present id: the one
\* reference() returns, and every one stored in an entity's data.
C15_ReferenceHasId ==
  /\ (call.op = "reference" /\ outcome = "ok") =>
       (result.val.rt # "" /\ result.val.id # NoneId)
  /\ \A i \in 1..Len(ents) : \A k \in DataKeys :
       (ents[i].data.isDict /\ ents[i].data.d[k].kind = "ref") =>
         (ents[i].data.d[k].rt # "" /\ ents[i].data.d[k].id # NoneId)

\* C12: get(id) sends a request for <resource type>/<id> without parameters;
\* on a not-found answer it raises NotFound and returns nothing; when the
\* server answers with the record of that type and id (and the schema of the
\* type resolves) it returns one entity, built in skip-validation mode, whose
\* id reads as the requested id.
C12_GetById ==
  call.op = "get" =>
    /\ fetches # <<>>
    /\ fetches[1] = Request(<<builders[call.b].resource_type, call.id>>, EmptyDict)
    /\ call.response.status = 404 => (outcome = "NotFound" /\ result = NoResult)
    /\ ( /\ call.response.status = 200
         /\ call.response.body.resource_type = builders[call.b].resource_type
         /\ InitialField(call.response.body, "id") = call.id
         /\ schema[call.response.body.resource_type].present )
       => /\ outcome = "ok"
          /\ Len(result.ents) = 1
          /\ result.ents[1].resource_type = call.response.body.resource_type
          /\ getattr(schema, result.ents[1], "id") =
               [outcome |-> "ok", val |-> StrV(call.id)]

\* the statuses that report success (2xx)
SuccessStatuses == {st \in Statuses : st \div 100 = 2}

\* C13: the resource fetch of a terminal call maps the status of the answer:
\* not-found raises NotFound, every success status gives the payload (count()
\* returns its total), and every other status raises AuthorizationError.
C13_StatusMapping ==
  call.op \in TerminalOps =>
    /\ call.response.status = 404 => outcome = "NotFound"
    /\ call.response.status \notin SuccessStatuses \cup {404} =>
         outcome = "AuthorizationError"
    /\ (call.response.status \in SuccessStatuses /\ call.op = "count") =>
         (outcome = "ok" /\ result.total = call.response.total)

\* C14: resources() and the chain operations send no request and leave the
\* schema cache alone; only a terminal operation or an iteration sends one.
C14_ChainSendsNothing ==
  /\ call.op \in ChainOps \cup {"resources"} => (fetches = <<>> /\ schema = call.cache)
  /\ fetches # <<>> => call.op \in TerminalOps \cup {"iter"}

\* C14 witness: a third search set was built by sort() at the end of a chain
\* and no request has been sent to the server yet
C14_Witness ==
  /\ call.op = "sort"
  /\ call.ret = 3
  /\ Linear(call.ret)
  /\ ParamsOf(call.ret).s["_sort"] = "-birth_date,name"
  /\ fetches = <<>>
  /\ schema = EmptyCache

\* C16: first() on a search set whose mapping is P sends P with _count = 1 as
\* its collection request, and when it returns it returns the first entity of
\* the response, or None when the response has no entries.
C16_FirstSendsCountOne ==
  call.op = "first" =>
    /\ fetches # <<>>
    /\ fetches[1] = Request(<<builders[call.b].resource_type>>,
                            [call.before EXCEPT !.n["_count"] = 1])
    /\ outcome = "ok" =>
         IF call.response.entries = <<>>
         THEN result.none /\ result.ents = <<>>
         ELSE /\ ~result.none
              /\ Len(result.ents) = 1
              /\ result.ents[1].resource_type = call.response.entries[1].resource_type
              /\ result.ents[1].data.isDict
              /\ result.ents[1].data.d["id"] =
                   StrV(InitialField(call.response.entries[1], "id"))

\* C16 witness: first() after search(name="Jane") and limit(5) sends
\* _count = 1 with the filter and returns the first of the two entries
C16_Witness ==
  /\ call.op = "first"
  /\ call.before.s["name"] = "Jane"
  /\ call.before.n["_count"] = 5
  /\ fetches[1].params.n["_count"] = 1
  /\ fetches[1].params.s["name"] = "Jane"
  /\ outcome = "ok"
  /\ Len(call.response.entries) = 2
  /\ result.ents[1].data.d["id"] = StrV("1")

\* C17: a terminal operation or an iteration leaves the mapping of the search
\* set it is called on as it was before the call.
C17_TerminalLeavesParams ==
  call.op \in TerminalOps \cup {"iter"} => ParamsOf(call.b) = call.before

\* the search set resources() returned from which b derives
RECURSIVE Root(_)
Root(b) == IF hist[b].parent = 0 THEN b ELSE Root(hist[b].parent)

\* C19: search sets that derive from different resources() calls never hold
\* the same dict, no operation on one changes the mapping of the other, and
\* the search set resources() returns has an empty mapping.
C19_FactoriesShareNothing ==
  [][/\ \A a, b \in 1..Len(builders') :
          Root(a)' # Root(b)' => builders'[a].params # builders'[b].params
     /\ call'.op = "resources" => dicts'[builders'[call'.ret].params] = EmptyDict
     /\ call'.op \in ChainOps \cup TerminalOps =>
          \A c \in 1..Len(builders) :
            Root(c) # Root(call'.b) =>
              dicts'[builders[c].params] = dicts[builders[c].params]]_vars

\* C19 witness: a second resources() call returned an empty search set after
\* the first one had been given a filter and a page size by first()
C19_Witness ==
  /\ call.op = "resources"
  /\ call.ret > 1
  /\ ParamsOf(call.ret) = EmptyDict
  /\ ParamsOf(1).s["name"] = "Jane"
  /\ ParamsOf(1).n["_count"] = 1

\* C18: when the attribute fetch a step sends for a resource type T fails,
\* the operation that caused it (a construction, get, all, first, an
\* iteration or a resolution) raises the error of that fetch; the fetch is
\* sent once and is the last request of the operation; no entity is returned
\* or kept; T is absent from the cache before and after, and the cache
\* entries of the types the step sent no attribute fetch for are unchanged.
\* A resolution of a type that is absent from the cache sends a fetch.
C18_FailedSchemaFetch ==
  [][\A T \in Types :
       /\ ( /\ AttrRequests(fetches', T) # {}
            /\ fetch_outcome(call'.answer.status[T]) # "ok" )
          => /\ call'.op \in {"new", "get", "all", "first", "iter", "fetch_schema"}
             /\ outcome' = fetch_outcome(call'.answer.status[T])
             /\ AttrRequests(fetches', T) = {Len(fetches')}
             /\ result' = NoResult
             /\ ents' = ents
             /\ ~schema[T].present
             /\ ~schema'[T].present
             /\ \A U \in Types :
                  AttrRequests(fetches', U) = {} => schema'[U] = schema[U]
       /\ (~schema[T].present /\ call'.op = "fetch_schema" /\ call'.rt = T)
          => AttrRequests(fetches', T) = {1}]_vars

\* C18 witness: all() received a Binary and a Patient on an empty cache; the
\* attribute fetch for Binary succeeded and the one for Patient failed: the
\* call raised after three requests, returned nothing, and Patient is absent
C18_Witness ==
  /\ call.op = "all"
  /\ outcome = "AuthorizationError"
  /\ Len(fetches) = 3
  /\ AttrRequests(fetches, "Patient") = {3}
  /\ result = NoResult
  /\ schema["Binary"].present
  /\ ~schema["Patient"].present

====
